---- MODULE Spec2Model ----
(***************************************************************************)
(* Model of the shopping-cart state engine (hooks/useCart.ts), of the       *)
(* pricing functions it renders with (utils/pricing.ts), of the catalog    *)
(* loader (hooks/useProducts.ts), of the catalog providers                 *)
(* (services/api.ts) and of the presentation layer (App.tsx and the        *)
(* components).  Spec runs the cart, SpecOrder the cart with the history   *)
(* of additions, SpecDiscount the cart under every valid discount,         *)
(* SpecBatch the cart with several operations queued before a render,      *)
(* SpecPricing the pricing functions on their own, SpecLoader the loader,  *)
(* SpecLoaderFair the loader whose latest fetch settles if it can,         *)
(* SpecProvider one call of a provider, SpecView the application as the    *)
(* user drives it.                                                         *)
(*                                                                         *)
(* Money is fixed-point: an amount is an integer number of units, with     *)
(* CentUnits units to the cent, so that sub-cent amounts and exact         *)
(* half-cent ties exist.  Arithmetic is exact; the binary floating-point   *)
(* representation error of the JavaScript numbers is not modelled.         *)
(***************************************************************************)
EXTENDS Integers, Sequences, FiniteSets, TLC

(* ------------------------------- bounds -------------------------------- *)

\* Number of distinct product identifiers offered to the cart.
NumProducts == 3

\* Largest quantity a line reaches in the model (addItem is not offered on a
\* line that already holds MaxQty; updateQuantity arguments stop at MaxQty).
MaxQty == 2

(* ------------------------------ constants ------------------------------ *)

\* Units per cent: `Math.round(x * 100) / 100` snaps to multiples of this.
CentUnits == 10

\* calculateTax's default rate 0.1, as a percentage.
DefaultTaxRate == 10

ProductIds == 1..NumProducts

\* Unit price of each catalog product: $80.00 and $120.00 (product1 and
\* product2 of the cart tests) and, for the others, the sub-cent $5.495.
PriceOf(id) == CASE id = 1 -> 80000 [] id = 2 -> 120000 [] OTHER -> 5495

\* Products handed to addItem: the catalog's, and product 1 once more under
\* another unit price (a Product is a plain object; nothing ties id to price).
Products ==
    {[id |-> i, price |-> PriceOf(i)] : i \in ProductIds}
        \cup {[id |-> 1, price |-> 4999]}

\* Quantity arguments given to updateQuantity: negative, zero and positive.
QtyArgs == (-1)..MaxQty

\* Discount percentages a cart is constructed with, in and out of 0..100.
DiscountPercents == {-5, 0, 10, 101}

(* ------------------------- pricing (pure functions) -------------------- *)

\* Math.round of the rational n/d (d > 0): nearest integer, ties toward +oo.
MathRound(n, d) == (2 * n + d) \div (2 * d)

\* Mutant: the upper limit tested with >=, so that 100% is refused.
calculateDiscountRefuses100(discountPercent) ==
    discountPercent < 0 \/ discountPercent >= 100

\* calculateDiscount throws for a percentage outside 0..100.
calculateDiscountThrows(discountPercent) ==
    discountPercent < 0 \/ discountPercent > 100

\* Mutant: the percentage is added to the price instead of taken off.
calculateDiscountAdds(price, discountPercent) ==
    MathRound(price * (100 + discountPercent), 100 * CentUnits) * CentUnits

\* calculateDiscount's return value: price * (1 - d/100), rounded to the cent.
calculateDiscount(price, discountPercent) ==
    MathRound(price * (100 - discountPercent), 100 * CentUnits) * CentUnits

\* Mutant: the tax is cut to the cent below (Math.floor for Math.round).
calculateTaxFloors(price, taxRate) ==
    ((price * taxRate) \div (100 * CentUnits)) * CentUnits

\* calculateTax: price * taxRate rounded to the cent; taxRate in percent.
calculateTax(price, taxRate) ==
    MathRound(price * taxRate, 100 * CentUnits) * CentUnits

\* items.reduce((sum, item) => sum + item.price * item.quantity, 0)
RECURSIVE ReduceLineTotals(_)
ReduceLineTotals(lines) ==
    IF lines = << >> THEN 0
    ELSE ReduceLineTotals(SubSeq(lines, 1, Len(lines) - 1))
         + lines[Len(lines)].price * lines[Len(lines)].quantity

\* Mutant: each line total is rounded to the cent before it is added.
RECURSIVE ReduceRoundedLineTotals(_)
ReduceRoundedLineTotals(lines) ==
    IF lines = << >> THEN 0
    ELSE ReduceRoundedLineTotals(SubSeq(lines, 1, Len(lines) - 1))
         + MathRound(lines[Len(lines)].price * lines[Len(lines)].quantity,
                     CentUnits) * CentUnits

calculateTotalRoundsLines(lines) == ReduceRoundedLineTotals(lines)

\* calculateTotal: the sum of price * quantity, rounded to the cent once.
calculateTotal(lines) == MathRound(ReduceLineTotals(lines), CentUnits) * CentUnits

(* ------------------------------ cart state ----------------------------- *)

VARIABLES
    items,            \* useState<CartItem[]>: sequence of [product, quantity]
    discountPercent,  \* the hook's argument, the same on every render
    status,           \* "mounted", or "threw" once a render raised
    current,          \* what the last render returned (result.current)
    lastOp            \* history: the call that produced this state

\* History of the order of additions, kept by the specification SpecOrder.
VARIABLES
    firstAdded,       \* product ids in the order of their first addition ever
    created           \* ids of the present lines in the order of their creation

\* The pricing function applied by the specification SpecPricing.
VARIABLES
    call              \* the last call: function, arguments, outcome

\* The catalog loader (hooks/useProducts.ts), run by the specification
\* SpecLoader.
VARIABLES
    api,              \* the provider the hook was last rendered with
    products,         \* useState<Product[]>
    loading,          \* useState(true)
    error,            \* useState<string | null>; NoError stands for null
    mounted,          \* the consumer has not been torn down
    fetches,          \* one record per effect run: its fetch and its flag
    lastEvent         \* history: what the last loader step did

\* A call of a catalog provider (services/api.ts), run by SpecProvider.
VARIABLES
    request           \* the call: provider, operation, URL, response, outcome

\* The presentation layer (App, ProductCard, CartSummary), run by SpecView.
VARIABLES
    intent            \* history: the callback the last user event invoked

\* State updates waiting for the next render, run by SpecBatch.
VARIABLES
    pending,          \* React's queue of the updaters passed to setItems
    serial,           \* history: the items had each call been rendered alone
    batched           \* history: how many updates the last render processed

cartVars == <<items, discountPercent, status, current, lastOp>>
orderVars == <<firstAdded, created>>
pricingVars == <<call>>
loaderVars == <<api, products, loading, error, mounted, fetches, lastEvent>>
providerVars == <<request>>
viewVars == <<intent>>
batchVars == <<pending, serial, batched>>
otherVars == <<providerVars, viewVars, batchVars>>

vars == <<cartVars, orderVars, pricingVars, loaderVars, otherVars>>

\* The value of error while no failure has been recorded (null).
NoError == "null"

\* The parts of the state a specification does not run stay as they are here.
OrderIdle == firstAdded = << >> /\ created = << >>
PricingIdle == call = [fn |-> "none"]
LoaderIdle ==
    /\ api = 0 /\ products = << >> /\ loading = TRUE /\ error = NoError
    /\ mounted = FALSE /\ fetches = << >> /\ lastEvent = [ev |-> "none"]

ProviderIdle == request = [state |-> "none"]
ViewIdle == intent = [cb |-> "none"]
BatchIdle == pending = << >> /\ serial = << >> /\ batched = 0
OthersIdle == ProviderIdle /\ ViewIdle /\ BatchIdle

\* prev.find((i) => i.product.id === id) finds a line
HasLine(prev, id) == \E k \in 1..Len(prev) : prev[k].product.id = id

\* prev.filter((i) => i.product.id !== productId)
RECURSIVE FilterOut(_, _)
FilterOut(prev, productId) ==
    IF prev = << >> THEN << >>
    ELSE IF Head(prev).product.id # productId
         THEN <<Head(prev)>> \o FilterOut(Tail(prev), productId)
         ELSE FilterOut(Tail(prev), productId)

\* Mutant: the matching line takes the product passed ({ ...i, product, .. }).
addItemTakesNewProduct(prev, product) ==
    IF HasLine(prev, product.id)
    THEN [k \in 1..Len(prev) |->
            IF prev[k].product.id = product.id
            THEN [product |-> product, quantity |-> prev[k].quantity + 1]
            ELSE prev[k]]
    ELSE Append(prev, [product |-> product, quantity |-> 1])

\* Mutant: addItem without the `existing` lookup, a new line on every call.
addItemAlwaysAppends(prev, product) ==
    Append(prev, [product |-> product, quantity |-> 1])

\* Mutant: a new line is put before the existing lines, not after them.
addItemPrepends(prev, product) ==
    IF HasLine(prev, product.id)
    THEN [k \in 1..Len(prev) |->
            IF prev[k].product.id = product.id
            THEN [prev[k] EXCEPT !.quantity = prev[k].quantity + 1]
            ELSE prev[k]]
    ELSE <<[product |-> product, quantity |-> 1]>> \o prev

\* The state updater addItem passes to setItems.
addItemUpdater(prev, product) ==
    IF HasLine(prev, product.id)
    THEN [k \in 1..Len(prev) |->
            IF prev[k].product.id = product.id
            THEN [prev[k] EXCEPT !.quantity = prev[k].quantity + 1]
            ELSE prev[k]]
    ELSE Append(prev, [product |-> product, quantity |-> 1])

\* Mutant: the filter's test inverted (=== for !==), keeping only the match.
removeItemKeepsMatch(prev, productId) ==
    SelectSeq(prev, LAMBDA i : i.product.id = productId)

\* The state updater removeItem passes to setItems.
removeItemUpdater(prev, productId) == FilterOut(prev, productId)

\* Mutant: the map sets the quantity of every line, not of the matching one.
updateQuantitySetsEveryLine(prev, productId, quantity) ==
    IF quantity <= 0
    THEN FilterOut(prev, productId)
    ELSE [k \in 1..Len(prev) |-> [prev[k] EXCEPT !.quantity = quantity]]

\* Mutant: `quantity < 0` for `quantity <= 0`, so that 0 is stored.
updateQuantityStoresZero(prev, productId, quantity) ==
    IF quantity < 0
    THEN FilterOut(prev, productId)
    ELSE [k \in 1..Len(prev) |->
            IF prev[k].product.id = productId
            THEN [prev[k] EXCEPT !.quantity = quantity]
            ELSE prev[k]]

\* Mutant: a non-positive quantity is ignored instead of deleting the line.
updateQuantityIgnoresNonPositive(prev, productId, quantity) ==
    IF quantity <= 0
    THEN prev
    ELSE [k \in 1..Len(prev) |->
            IF prev[k].product.id = productId
            THEN [prev[k] EXCEPT !.quantity = quantity]
            ELSE prev[k]]

\* Mutant: the quantity is added to the line's quantity instead of set.
updateQuantityAdditive(prev, productId, quantity) ==
    IF quantity <= 0
    THEN FilterOut(prev, productId)
    ELSE [k \in 1..Len(prev) |->
            IF prev[k].product.id = productId
            THEN [prev[k] EXCEPT !.quantity = prev[k].quantity + quantity]
            ELSE prev[k]]

\* Mutant: a missing line is created (an upsert) instead of left missing.
updateQuantityUpserts(prev, productId, quantity) ==
    IF quantity <= 0
    THEN FilterOut(prev, productId)
    ELSE IF HasLine(prev, productId)
         THEN [k \in 1..Len(prev) |->
                 IF prev[k].product.id = productId
                 THEN [prev[k] EXCEPT !.quantity = quantity]
                 ELSE prev[k]]
         ELSE Append(prev, [product |-> [id |-> productId, price |-> 0],
                            quantity |-> quantity])

\* The state updater updateQuantity passes to setItems.
updateQuantityUpdater(prev, productId, quantity) ==
    IF quantity <= 0
    THEN FilterOut(prev, productId)
    ELSE [k \in 1..Len(prev) |->
            IF prev[k].product.id = productId
            THEN [prev[k] EXCEPT !.quantity = quantity]
            ELSE prev[k]]

\* Mutant: clearCart drops the first line only.
clearCartDropsHead(prev) == IF prev = << >> THEN << >> ELSE Tail(prev)

\* clearCart: setItems([])
clearCartUpdater(prev) == << >>

\* items.map((i) => ({ price: i.product.price, quantity: i.quantity }))
PriceLines(its) ==
    [k \in 1..Len(its) |-> [price |-> its[k].product.price,
                            quantity |-> its[k].quantity]]

\* Mutant: the reduce starts from 1 instead of 0.
RECURSIVE ReduceQuantityFromOne(_)
ReduceQuantityFromOne(its) ==
    IF its = << >> THEN 1
    ELSE ReduceQuantityFromOne(SubSeq(its, 1, Len(its) - 1))
         + its[Len(its)].quantity

\* items.reduce((sum, i) => sum + i.quantity, 0)
RECURSIVE ReduceQuantity(_)
ReduceQuantity(its) ==
    IF its = << >> THEN 0
    ELSE ReduceQuantity(SubSeq(its, 1, Len(its) - 1)) + its[Len(its)].quantity

\* The render throws exactly when its call of calculateDiscount does.
RenderThrows(its, dp) == calculateDiscountThrows(dp)

\* Placeholder for result.current when the render returned nothing.
NoResult == [items |-> << >>, subtotal |-> -1, discountedTotal |-> -1,
             tax |-> -1, total |-> -1, itemCount |-> -1]

\* Mutant: the tax is taken off the discounted total instead of added.
RenderTaxDeducted(its, dp) ==
    LET subtotal        == calculateTotal(PriceLines(its))
        discountedTotal == calculateDiscount(subtotal, dp)
        tax             == calculateTax(discountedTotal, DefaultTaxRate)
        total           == MathRound(discountedTotal - tax, CentUnits) * CentUnits
    IN  [items |-> its, subtotal |-> subtotal,
         discountedTotal |-> discountedTotal, tax |-> tax, total |-> total,
         itemCount |-> ReduceQuantity(its)]

\* Mutant: the discount is dropped once the cart holds more than one line.
RenderDiscountOneLine(its, dp) ==
    LET subtotal        == calculateTotal(PriceLines(its))
        discountedTotal == calculateDiscount(subtotal,
                                             IF Len(its) > 1 THEN 0 ELSE dp)
        tax             == calculateTax(discountedTotal, DefaultTaxRate)
        total           == MathRound(discountedTotal + tax, CentUnits) * CentUnits
    IN  [items |-> its, subtotal |-> subtotal,
         discountedTotal |-> discountedTotal, tax |-> tax, total |-> total,
         itemCount |-> ReduceQuantity(its)]

\* Mutant: the tax is taken on the subtotal, not on the discounted total.
RenderTaxOnSubtotal(its, dp) ==
    LET subtotal        == calculateTotal(PriceLines(its))
        discountedTotal == calculateDiscount(subtotal, dp)
        tax             == calculateTax(subtotal, DefaultTaxRate)
        total           == MathRound(discountedTotal + tax, CentUnits) * CentUnits
    IN  [items |-> its, subtotal |-> subtotal,
         discountedTotal |-> discountedTotal, tax |-> tax, total |-> total,
         itemCount |-> ReduceQuantity(its)]

\* The body of useCart from the derived values on: what a render returns.
Render(its, dp) ==
    LET subtotal        == calculateTotal(PriceLines(its))
        discountedTotal == calculateDiscount(subtotal, dp)
        tax             == calculateTax(discountedTotal, DefaultTaxRate)
        total           == MathRound(discountedTotal + tax, CentUnits) * CentUnits
    IN  [items |-> its, subtotal |-> subtotal,
         discountedTotal |-> discountedTotal, tax |-> tax, total |-> total,
         itemCount |-> ReduceQuantity(its)]

\* The quantity the line for id holds in its, 0 when there is none.
QuantityOf(its, id) ==
    IF HasLine(its, id)
    THEN its[CHOOSE k \in 1..Len(its) : its[k].product.id = id].quantity
    ELSE 0

(* History kept for stating properties; the code has no such field.        *)
(*   op, id, price, quantity : the call and its arguments (0 where none)   *)
(*   had : the cart had a line for id (for clearCart: any line) before it  *)
(*   n   : addItem: how many addItem(id) calls in a row led here from a    *)
(*         cart without a line for id (0 if the run did not start there);  *)
(*         clearCart: 2 if the previous call was clearCart too, else 1     *)
NoOp == [op |-> "init", id |-> 0, price |-> 0, quantity |-> 0,
         had |-> FALSE, n |-> 0]

AddRun(product) ==
    IF ~HasLine(items, product.id) THEN 1
    ELSE IF lastOp.op = "addItem" /\ lastOp.id = product.id /\ lastOp.n > 0
         THEN lastOp.n + 1
         ELSE 0

\* setItems(next) followed by the re-render React schedules for it.
CartCommit(next, op) ==
    /\ items' = next
    /\ lastOp' = op
    /\ discountPercent' = discountPercent
    /\ IF RenderThrows(next, discountPercent)
       THEN status' = "threw" /\ current' = NoResult
       ELSE status' = "mounted" /\ current' = Render(next, discountPercent)

\* A cart operation as a step of Spec: nothing but the cart changes.
Commit(next, op) ==
    /\ CartCommit(next, op)
    /\ UNCHANGED <<orderVars, pricingVars, loaderVars, otherVars>>

\* renderHook(() => useCart(discountPercent)): the first render.
CartInit ==
    /\ discountPercent \in DiscountPercents
    /\ items = << >>
    /\ lastOp = NoOp
    /\ IF RenderThrows(<< >>, discountPercent)
       THEN status = "threw" /\ current = NoResult
       ELSE status = "mounted" /\ current = Render(<< >>, discountPercent)

Init == CartInit /\ OrderIdle /\ PricingIdle /\ LoaderIdle /\ OthersIdle

AddItem(product) ==
    /\ status = "mounted"
    /\ QuantityOf(items, product.id) < MaxQty
    /\ Commit(addItemUpdater(items, product),
              [op |-> "addItem", id |-> product.id, price |-> product.price,
               quantity |-> 0, had |-> HasLine(items, product.id),
               n |-> AddRun(product)])

RemoveItem(productId) ==
    /\ status = "mounted"
    /\ Commit(removeItemUpdater(items, productId),
              [op |-> "removeItem", id |-> productId, price |-> 0,
               quantity |-> 0, had |-> HasLine(items, productId), n |-> 0])

UpdateQuantity(productId, quantity) ==
    /\ status = "mounted"
    /\ Commit(updateQuantityUpdater(items, productId, quantity),
              [op |-> "updateQuantity", id |-> productId, price |-> 0,
               quantity |-> quantity, had |-> HasLine(items, productId),
               n |-> 0])

ClearCart ==
    /\ status = "mounted"
    /\ Commit(clearCartUpdater(items),
              [op |-> "clearCart", id |-> 0, price |-> 0, quantity |-> 0,
               had |-> items # << >>,
               n |-> IF lastOp.op = "clearCart" THEN 2 ELSE 1])

Next ==
    \/ \E product \in Products : AddItem(product)
    \/ \E productId \in ProductIds : RemoveItem(productId)
    \/ \E productId \in ProductIds, quantity \in QtyArgs :
           UpdateQuantity(productId, quantity)
    \/ ClearCart

Spec == Init /\ [][Next]_vars

(* ------------------- the cart, with its order history ------------------ *)

\* useCart's default discountPercent.
DefaultDiscountPercent == 0

\* The product ids of the lines, in the order of the lines.
ItemIds(its) == [k \in 1..Len(its) |-> its[k].product.id]

InSeq(seq, x) == \E k \in 1..Len(seq) : seq[k] = x

Without(seq, x) == SelectSeq(seq, LAMBDA y : y # x)

\* renderHook(() => useCart()): the first render, nothing added yet.
OrderInit ==
    /\ discountPercent = DefaultDiscountPercent
    /\ items = << >>
    /\ lastOp = NoOp
    /\ status = "mounted"
    /\ current = Render(<< >>, DefaultDiscountPercent)
    /\ OrderIdle /\ PricingIdle /\ LoaderIdle /\ OthersIdle

\* A cart operation as a step of SpecOrder: the cart changes as in Spec, and
\* the history records the additions (lastOp is not kept here).
OrderCommit(next, first, made) ==
    /\ CartCommit(next, lastOp)
    /\ firstAdded' = first
    /\ created' = made
    /\ UNCHANGED <<pricingVars, loaderVars, otherVars>>

OrderAddItem(product) ==
    /\ status = "mounted"
    /\ QuantityOf(items, product.id) < MaxQty
    /\ OrderCommit(addItemUpdater(items, product),
                   IF InSeq(firstAdded, product.id)
                   THEN firstAdded ELSE Append(firstAdded, product.id),
                   IF HasLine(items, product.id)
                   THEN created ELSE Append(created, product.id))

OrderRemoveItem(productId) ==
    /\ status = "mounted"
    /\ OrderCommit(removeItemUpdater(items, productId),
                   firstAdded, Without(created, productId))

OrderUpdateQuantity(productId, quantity) ==
    /\ status = "mounted"
    /\ OrderCommit(updateQuantityUpdater(items, productId, quantity),
                   firstAdded,
                   IF quantity <= 0
                   THEN Without(created, productId) ELSE created)

OrderClearCart ==
    /\ status = "mounted"
    /\ OrderCommit(clearCartUpdater(items), firstAdded, << >>)

OrderNext ==
    \/ \E product \in Products : OrderAddItem(product)
    \/ \E productId \in ProductIds : OrderRemoveItem(productId)
    \/ \E productId \in ProductIds, quantity \in QtyArgs :
           OrderUpdateQuantity(productId, quantity)
    \/ OrderClearCart

SpecOrder == OrderInit /\ [][OrderNext]_vars

(* ---------------------- the pricing functions, called ------------------ *)

\* Longest list of lines given to calculateTotal.
MaxLines == 3

\* Largest quantity of a line given to calculateTotal.
MaxLineQty == 3

\* The cart as useCart() first renders it; it takes no step in the
\* specifications that run another part.
CartIdle ==
    /\ discountPercent = DefaultDiscountPercent
    /\ items = << >>
    /\ lastOp = NoOp
    /\ status = "mounted"
    /\ current = Render(<< >>, DefaultDiscountPercent)

\* Amounts given to calculateDiscount and calculateTax: every amount up to
\* 2 cents by the tenth of a cent, negative and positive eighths of a dollar
\* (exact in binary, so that -0.125 * 100 is the tie -12.5), and the amounts
\* of the pricing tests ($10, $49.99, $100).
PricingAmounts ==
    (-20..20) \cup {-1125, -125, 125, 1125, 10000, 49990, 100000}

\* Discount percentages given to calculateDiscount, in and out of 0..100.
DiscountArgs == (-3)..103

\* Tax rates given to calculateTax, in percent (0.25 is 25).
TaxRates == {-10, 0, 10, 25}

\* Lines given to calculateTotal: $10, $5.50 (the pricing test) and $5.495.
TotalLines == [price : {10000, 5500, 5495}, quantity : 1..MaxLineQty]

\* All sequences over S of length at most n.
RECURSIVE SeqsUpTo(_, _)
SeqsUpTo(S, n) ==
    IF n = 0 THEN {<< >>}
    ELSE LET shorter == SeqsUpTo(S, n - 1)
         IN  shorter \cup {Append(q, x) : q \in shorter, x \in S}

\* Each behaviour of SpecPricing makes one call, from the state in which none
\* has been made: the functions keep no state between calls.

\* The result field of a call that threw.
NoValue == -999999

\* calculateDiscount(price, discountPercent)
CallCalculateDiscount(price, percent) ==
    /\ call.fn = "none"
    /\ call' = [fn |-> "calculateDiscount", price |-> price,
                arg |-> percent, given |-> TRUE, lines |-> << >>,
                threw |-> calculateDiscountThrows(percent),
                result |-> IF calculateDiscountThrows(percent) THEN NoValue
                           ELSE calculateDiscount(price, percent)]
    /\ UNCHANGED <<cartVars, orderVars, loaderVars, otherVars>>

\* calculateTax(price, taxRate)
CallCalculateTax(price, taxRate) ==
    /\ call.fn = "none"
    /\ call' = [fn |-> "calculateTax", price |-> price, arg |-> taxRate,
                given |-> TRUE, lines |-> << >>, threw |-> FALSE,
                result |-> calculateTax(price, taxRate)]
    /\ UNCHANGED <<cartVars, orderVars, loaderVars, otherVars>>

\* calculateTax(price): the rate takes its default.
CallCalculateTaxDefault(price) ==
    /\ call.fn = "none"
    /\ call' = [fn |-> "calculateTax", price |-> price, arg |-> 0,
                given |-> FALSE, lines |-> << >>, threw |-> FALSE,
                result |-> calculateTax(price, DefaultTaxRate)]
    /\ UNCHANGED <<cartVars, orderVars, loaderVars, otherVars>>

\* calculateTotal(lines)
CallCalculateTotal(lines) ==
    /\ call.fn = "none"
    /\ call' = [fn |-> "calculateTotal", price |-> 0, arg |-> 0,
                given |-> TRUE, lines |-> lines, threw |-> FALSE,
                result |-> calculateTotal(lines)]
    /\ UNCHANGED <<cartVars, orderVars, loaderVars, otherVars>>

PricingInit ==
    CartIdle /\ OrderIdle /\ PricingIdle /\ LoaderIdle /\ OthersIdle

\* No call made yet (each action states it; stated first here, it spares
\* enumerating the arguments in the states where a call has been made).
NoCallYet == call.fn = "none"

PricingNext ==
    \/ NoCallYet /\ \E price \in PricingAmounts, percent \in DiscountArgs :
                        CallCalculateDiscount(price, percent)
    \/ NoCallYet /\ \E price \in PricingAmounts, taxRate \in TaxRates :
                        CallCalculateTax(price, taxRate)
    \/ NoCallYet /\ \E price \in PricingAmounts :
                        CallCalculateTaxDefault(price)
    \/ NoCallYet /\ \E lines \in SeqsUpTo(TotalLines, MaxLines) :
                        CallCalculateTotal(lines)

SpecPricing == PricingInit /\ [][PricingNext]_vars

(* ------------------- the catalog loader (useProducts) ------------------ *)

\* Most effect runs (activations) of the loader in a behaviour.
MaxActivations == 3

\* The provider objects the hook is rendered with.
Providers == {"apiA", "apiB"}

\* What a fetchProducts() promise resolves with: no product, one, two.
Catalogs ==
    {<< >>,
     <<[id |-> 1, price |-> PriceOf(1)]>>,
     <<[id |-> 1, price |-> PriceOf(1)], [id |-> 2, price |-> PriceOf(2)]>>}

\* The err.message a fetchProducts() promise rejects with.
Messages == {"Network error", "Failed to fetch products"}

\* Mutant: the effect does not call setLoading(true).
effectKeepsLoading(wasLoading) == wasLoading

\* setLoading(true) at the start of the effect: the value loading takes.
effectSetsLoading(wasLoading) == TRUE

\* Mutant: the cleanup sets the flag only for a fetch that has settled, so
\* that a fetch still in flight is not cancelled.
cleanupSkipsPending(fetch) ==
    IF fetch.state = "pending" THEN fetch
    ELSE [fetch EXCEPT !.cancelled = TRUE]

\* Mutant: the cleanup function does not set the flag.
cleanupForgets(fetch) == fetch

\* The effect's cleanup, () => { cancelled = true; }
cleanup(fetch) == [fetch EXCEPT !.cancelled = TRUE]

\* The cleanup applies to the effect run last, the only one not cleaned up.
CleanupLast(fs) ==
    [k \in 1..Len(fs) |-> IF k = Len(fs) THEN cleanup(fs[k]) ELSE fs[k]]

\* Mutant: the flag starts set (let cancelled = true).
NewFetchCancelled(a) == [api |-> a, cancelled |-> TRUE, state |-> "pending"]

\* api.fetchProducts() called by the effect: a promise not settled yet, with
\* the effect run's own `cancelled`.
NewFetch(a) == [api |-> a, cancelled |-> FALSE, state |-> "pending"]

\* History of the loader's last step; the code has no such field.
\*   ev      : "mount", "rerender", "resolve", "reject" or "unmount"
\*   k       : the effect run whose promise settled (0 for the other steps)
\*   current : that run was the latest one and the consumer was mounted
\*   wasLoading : loading before the step
\*   data, msg : what the promise settled with
LoaderEvent(ev, k, data, msg) ==
    [ev |-> ev, k |-> k,
     current |-> (k = Len(fetches) /\ mounted),
     wasLoading |-> loading, data |-> data, msg |-> msg]

\* renderHook(() => useProducts(api)): the first render and its effect.
LoaderInit ==
    /\ CartIdle /\ OrderIdle /\ PricingIdle /\ OthersIdle
    /\ api \in Providers
    /\ products = << >>
    /\ loading = effectSetsLoading(TRUE)
    /\ error = NoError
    /\ mounted = TRUE
    /\ fetches = <<NewFetch(api)>>
    /\ lastEvent = [ev |-> "mount", k |-> 0, current |-> FALSE,
                    wasLoading |-> TRUE, data |-> << >>, msg |-> NoError]

\* The hook is rendered with another provider: the effect's dependency [api]
\* changed, so the previous effect is cleaned up and the effect runs again.
Rerender(newApi) ==
    /\ mounted
    /\ newApi # api
    /\ Len(fetches) < MaxActivations
    /\ api' = newApi
    /\ loading' = effectSetsLoading(loading)
    /\ fetches' = Append(CleanupLast(fetches), NewFetch(newApi))
    /\ lastEvent' = LoaderEvent("rerender", 0, << >>, NoError)
    /\ UNCHANGED <<products, error, mounted>>
    /\ UNCHANGED <<cartVars, orderVars, pricingVars, otherVars>>

\* The promise of effect run k resolves with data: the .then callback.
Resolve(k, data) ==
    /\ fetches[k].state = "pending"
    /\ fetches' = [fetches EXCEPT ![k].state = "settled"]
    /\ IF ~fetches[k].cancelled
       THEN products' = data /\ loading' = FALSE
       ELSE UNCHANGED <<products, loading>>
    /\ lastEvent' = LoaderEvent("resolve", k, data, NoError)
    /\ UNCHANGED <<api, error, mounted>>
    /\ UNCHANGED <<cartVars, orderVars, pricingVars, otherVars>>

\* The promise of effect run k rejects with an Error(msg): the .catch
\* callback.
Reject(k, msg) ==
    /\ fetches[k].state = "pending"
    /\ fetches' = [fetches EXCEPT ![k].state = "settled"]
    /\ IF ~fetches[k].cancelled
       THEN error' = msg /\ loading' = FALSE
       ELSE UNCHANGED <<error, loading>>
    /\ lastEvent' = LoaderEvent("reject", k, << >>, msg)
    /\ UNCHANGED <<api, products, mounted>>
    /\ UNCHANGED <<cartVars, orderVars, pricingVars, otherVars>>

\* The consumer is torn down: the last effect is cleaned up.
Unmount ==
    /\ mounted
    /\ mounted' = FALSE
    /\ fetches' = CleanupLast(fetches)
    /\ lastEvent' = LoaderEvent("unmount", 0, << >>, NoError)
    /\ UNCHANGED <<api, products, loading, error>>
    /\ UNCHANGED <<cartVars, orderVars, pricingVars, otherVars>>

LoaderNext ==
    \/ \E newApi \in Providers : Rerender(newApi)
    \/ \E k \in 1..Len(fetches), data \in Catalogs : Resolve(k, data)
    \/ \E k \in 1..Len(fetches), msg \in Messages : Reject(k, msg)
    \/ Unmount

SpecLoader == LoaderInit /\ [][LoaderNext]_vars

(* ------------- the catalog loader whose fetches do settle -------------- *)

\* The promise of the latest effect run settles, one way or the other.
SettleCurrent ==
    \/ \E data \in Catalogs : Resolve(Len(fetches), data)
    \/ \E msg \in Messages : Reject(Len(fetches), msg)

\* The loader with providers that answer: the fetch of the latest effect run
\* does not stay pending forever.
SpecLoaderFair == LoaderInit /\ [][LoaderNext]_vars /\ WF_vars(SettleCurrent)

(* ----------------- the catalog providers (services/api.ts) ------------- *)

\* Largest product identifier asked of a provider; the fixture holds 1..4.
MaxRequestId == 5

\* const mockProducts, as [id, price] (name and image are not modelled).
mockProducts ==
    <<[id |-> 1, price |-> 79990], [id |-> 2, price |-> 129990],
      [id |-> 3, price |-> 49990], [id |-> 4, price |-> 59990]>>

\* Identifiers asked for: in the fixture, next to it, and the tests' '999'.
RequestIds == (0..MaxRequestId) \cup {999}

\* The baseUrl createFetchApi is given.
BaseUrls == {"https://api.example.com", "http://localhost:3000/api"}

\* What res.json() gives for a list and for a single product.
ListBodies == {<< >>, <<[id |-> 1, price |-> 10000]>>, mockProducts}
ProductBodies == {[id |-> 1, price |-> 10000], [id |-> 7, price |-> 5495]}

\* What the global fetch resolves with: res.ok is true for a 2xx status.
Responses(bodies) ==
    [ok : {TRUE}, status : {200}, body : bodies]
        \cup [ok : {FALSE}, status : {404, 500}, body : bodies]

\* What the global fetch rejects with when no response arrives.
NetworkErrors == {<<"Failed to fetch">>}

\* The response field of a call no response was given to.
NoResponse == [ok |-> FALSE, status |-> 0, body |-> << >>]

\* mockProducts.find((p) => p.id === id) finds a product
mockHas(id) == \E k \in 1..Len(mockProducts) : mockProducts[k].id = id

\* mockProducts.find((p) => p.id === id): the first product with that id
mockFind(id) ==
    mockProducts[CHOOSE k \in 1..Len(mockProducts) :
                     /\ mockProducts[k].id = id
                     /\ \A j \in 1..(k - 1) : mockProducts[j].id # id]

\* Mutant: the message does not name the identifier.
ProductNotFoundAnonymous(id) == <<"Product not found">>

\* `Product ${id} not found`
ProductNotFound(id) == <<"Product ", id, " not found">>

\* `${baseUrl}/products`
productsUrl(baseUrl) == <<baseUrl, "/products">>

\* `${baseUrl}/products/${id}`
productUrl(baseUrl, id) == <<baseUrl, "/products/", id>>

\* Mutant: only a 404 is refused; any other response is read as a result.
responseRefusedOn404(res) == res.status = 404

\* !res.ok
responseRefused(res) == ~res.ok

\* 'Failed to fetch products'
FailedToFetchProducts == <<"Failed to fetch products">>

\* `Failed to fetch product ${id}`
FailedToFetchProduct(id) == <<"Failed to fetch product ", id>>

\* The promise an async provider operation returned, before it settles.
Pending(provider, op, id, baseUrl, url) ==
    [state |-> "pending", provider |-> provider, op |-> op, id |-> id,
     baseUrl |-> baseUrl, url |-> url]

\* The promise once the operation returned value; responded and res are
\* history (whether the global fetch resolved, and with what).
Fulfilled(req, responded, res, value) ==
    [state |-> "fulfilled", provider |-> req.provider, op |-> req.op,
     id |-> req.id, baseUrl |-> req.baseUrl, url |-> req.url,
     responded |-> responded, response |-> res, value |-> value]

\* The promise once the operation threw new Error(message).
Rejected(req, responded, res, message) ==
    [state |-> "rejected", provider |-> req.provider, op |-> req.op,
     id |-> req.id, baseUrl |-> req.baseUrl, url |-> req.url,
     responded |-> responded, response |-> res, message |-> message]

\* A provider operation as a step of SpecProvider: only request changes.
ProviderStep(next) ==
    /\ request' = next
    /\ UNCHANGED <<cartVars, orderVars, pricingVars, loaderVars>>
    /\ UNCHANGED <<viewVars, batchVars>>

ProviderInit ==
    /\ CartIdle /\ OrderIdle /\ PricingIdle /\ LoaderIdle /\ OthersIdle

\* createMockApi().fetchProducts() up to its await: the timer is set.
MockFetchProducts ==
    /\ request.state = "none"
    /\ ProviderStep(Pending("mock", "fetchProducts", 0, "", << >>))

\* The timer fires: return [...mockProducts]
MockFetchProductsReturns ==
    /\ request.state = "pending" /\ request.provider = "mock"
    /\ request.op = "fetchProducts"
    /\ ProviderStep(Fulfilled(request, FALSE, NoResponse, mockProducts))

\* createMockApi().fetchProduct(id) up to its await: the timer is set.
MockFetchProduct(id) ==
    /\ request.state = "none"
    /\ ProviderStep(Pending("mock", "fetchProduct", id, "", << >>))

\* The timer fires: find, throw if nothing was found, return { ...product }
MockFetchProductReturns ==
    /\ request.state = "pending" /\ request.provider = "mock"
    /\ request.op = "fetchProduct"
    /\ ProviderStep(
           IF ~mockHas(request.id)
           THEN Rejected(request, FALSE, NoResponse,
                         ProductNotFound(request.id))
           ELSE Fulfilled(request, FALSE, NoResponse, mockFind(request.id)))

\* createFetchApi(baseUrl).fetchProducts() up to its await: fetch is called.
FetchProducts(baseUrl) ==
    /\ request.state = "none"
    /\ ProviderStep(Pending("fetch", "fetchProducts", 0, baseUrl,
                            productsUrl(baseUrl)))

\* The fetch resolves with res: throw if !res.ok, else return res.json()
FetchProductsResponds(res) ==
    /\ request.state = "pending" /\ request.provider = "fetch"
    /\ request.op = "fetchProducts"
    /\ ProviderStep(
           IF responseRefused(res)
           THEN Rejected(request, TRUE, res, FailedToFetchProducts)
           ELSE Fulfilled(request, TRUE, res, res.body))

\* createFetchApi(baseUrl).fetchProduct(id) up to its await.
FetchProduct(baseUrl, id) ==
    /\ request.state = "none"
    /\ ProviderStep(Pending("fetch", "fetchProduct", id, baseUrl,
                            productUrl(baseUrl, id)))

\* The fetch resolves with res: throw if !res.ok, else return res.json()
FetchProductResponds(res) ==
    /\ request.state = "pending" /\ request.provider = "fetch"
    /\ request.op = "fetchProduct"
    /\ ProviderStep(
           IF responseRefused(res)
           THEN Rejected(request, TRUE, res, FailedToFetchProduct(request.id))
           ELSE Fulfilled(request, TRUE, res, res.body))

\* The fetch rejects (no response): the await throws and the async function
\* rejects with the same error.
FetchRejects(message) ==
    /\ request.state = "pending" /\ request.provider = "fetch"
    /\ ProviderStep(Rejected(request, FALSE, NoResponse, message))

ProviderNext ==
    \/ MockFetchProducts
    \/ MockFetchProductsReturns
    \/ \E id \in RequestIds : MockFetchProduct(id)
    \/ MockFetchProductReturns
    \/ \E baseUrl \in BaseUrls : FetchProducts(baseUrl)
    \/ \E res \in Responses(ListBodies) : FetchProductsResponds(res)
    \/ \E baseUrl \in BaseUrls, id \in RequestIds : FetchProduct(baseUrl, id)
    \/ \E res \in Responses(ProductBodies) : FetchProductResponds(res)
    \/ \E message \in NetworkErrors : FetchRejects(message)

SpecProvider == ProviderInit /\ [][ProviderNext]_vars

(* ------------- the presentation layer (App and its components) --------- *)

\* useCart(10) in App.
AppDiscountPercent == 10

\* The provider App creates once (useMemo with no dependency).
AppApi == "apiA"

\* Texts a quantity input is changed to (e.target.value), as character
\* sequences: empty, zero, digits, a leading zero, a sign, a fraction, an
\* exponent, a leading space, trailing letters, letters only.
Texts ==
    {<< >>, <<"0">>, <<"1">>, <<"3">>, <<"0", "2">>, <<"-", "2">>,
     <<"2", ".", "7">>, <<"1", "e", "2">>, <<" ", "2">>, <<"3", "a">>,
     <<"a", "b", "c">>, <<"-">>}

DecimalDigits == {"0", "1", "2", "3", "4", "5", "6", "7", "8", "9"}

DigitValue(c) ==
    CASE c = "0" -> 0 [] c = "1" -> 1 [] c = "2" -> 2 [] c = "3" -> 3
      [] c = "4" -> 4 [] c = "5" -> 5 [] c = "6" -> 6 [] c = "7" -> 7
      [] c = "8" -> 8 [] c = "9" -> 9

\* parseInt, step 1: leading white space is skipped.
RECURSIVE TrimStart(_)
TrimStart(text) ==
    IF text # << >> /\ Head(text) = " " THEN TrimStart(Tail(text)) ELSE text

\* parseInt, last steps: the longest prefix made of digits.
RECURSIVE DigitPrefix(_)
DigitPrefix(text) ==
    IF text # << >> /\ Head(text) \in DecimalDigits
    THEN <<Head(text)>> \o DigitPrefix(Tail(text))
    ELSE << >>

\* The number a sequence of decimal digits denotes.
RECURSIVE DigitsNumber(_)
DigitsNumber(digits) ==
    IF digits = << >> THEN 0
    ELSE 10 * DigitsNumber(SubSeq(digits, 1, Len(digits) - 1))
         + DigitValue(digits[Len(digits)])

\* parseInt(text) with no radix, for texts without a 0x prefix: white space,
\* an optional sign, then digits up to the first other character; NaN when
\* there is no digit.
parseInt(text) ==
    LET trimmed  == TrimStart(text)
        signed   == trimmed # << >> /\ Head(trimmed) \in {"-", "+"}
        negative == trimmed # << >> /\ Head(trimmed) = "-"
        digits   == DigitPrefix(IF signed THEN Tail(trimmed) ELSE trimmed)
    IN  IF digits = << >> THEN [nan |-> TRUE, value |-> 0]
        ELSE [nan |-> FALSE,
              value |-> IF negative THEN -DigitsNumber(digits)
                        ELSE DigitsNumber(digits)]

\* Mutant: the fallback is 1 (parseInt(e.target.value) || 1).
ParsedOrOne(text) ==
    IF parseInt(text).nan \/ parseInt(text).value = 0 THEN 1
    ELSE parseInt(text).value

\* parseInt(e.target.value) || 0: NaN and 0 are falsy.
ParsedOrZero(text) ==
    IF parseInt(text).nan \/ parseInt(text).value = 0 THEN 0
    ELSE parseInt(text).value

\* Mutant: onRemove is given clearCart.
AppHandlerClearsOnRemove(cb) ==
    CASE cb = "onAddToCart" -> "addItem"
      [] cb = "onRemove" -> "clearCart"
      [] cb = "onUpdateQuantity" -> "updateQuantity"
      [] cb = "onClear" -> "clearCart"

\* The cart operation App passes for each callback prop of the components.
AppHandler(cb) ==
    CASE cb = "onAddToCart" -> "addItem"
      [] cb = "onRemove" -> "removeItem"
      [] cb = "onUpdateQuantity" -> "updateQuantity"
      [] cb = "onClear" -> "clearCart"

\* The cart operation op is called with the arguments args.
CallCart(op, args) ==
    CASE op = "addItem" ->
             CartCommit(addItemUpdater(items, args[1]),
                        [op |-> "addItem", id |-> args[1].id,
                         price |-> args[1].price, quantity |-> 0,
                         had |-> HasLine(items, args[1].id),
                         n |-> AddRun(args[1])])
      [] op = "removeItem" ->
             CartCommit(removeItemUpdater(items, args[1]),
                        [op |-> "removeItem", id |-> args[1], price |-> 0,
                         quantity |-> 0, had |-> HasLine(items, args[1]),
                         n |-> 0])
      [] op = "updateQuantity" ->
             CartCommit(updateQuantityUpdater(items, args[1], args[2]),
                        [op |-> "updateQuantity", id |-> args[1],
                         price |-> 0, quantity |-> args[2],
                         had |-> HasLine(items, args[1]), n |-> 0])
      [] op = "clearCart" ->
             CartCommit(clearCartUpdater(items),
                        [op |-> "clearCart", id |-> 0, price |-> 0,
                         quantity |-> 0, had |-> items # << >>,
                         n |-> IF lastOp.op = "clearCart" THEN 2 ELSE 1])

\* A component calls its callback prop cb with args: App's handler runs.
\* text is history: what the input held, for a change of a quantity.
Emit(cb, args, text) ==
    /\ intent' = [cb |-> cb, args |-> args, text |-> text]
    /\ CallCart(AppHandler(cb), args)
    /\ UNCHANGED <<orderVars, pricingVars, loaderVars>>
    /\ UNCHANGED <<providerVars, batchVars>>

\* App renders the components: not when there is an error message.
AppShown == mounted /\ status = "mounted" /\ error = NoError

\* The first render of App and the effect of useProducts.
ViewInit ==
    /\ discountPercent = AppDiscountPercent
    /\ items = << >>
    /\ lastOp = NoOp
    /\ status = "mounted"
    /\ current = Render(<< >>, AppDiscountPercent)
    /\ api = AppApi
    /\ products = << >>
    /\ loading = effectSetsLoading(TRUE)
    /\ error = NoError
    /\ mounted = TRUE
    /\ fetches = <<NewFetch(AppApi)>>
    /\ lastEvent = [ev |-> "mount", k |-> 0, current |-> FALSE,
                    wasLoading |-> TRUE, data |-> << >>, msg |-> NoError]
    /\ OrderIdle /\ PricingIdle /\ OthersIdle

\* The button of the k-th product card is clicked: onAddToCart(product).
ClickAddToCart(k) ==
    /\ AppShown /\ ~loading
    /\ k \in 1..Len(products)
    /\ QuantityOf(items, products[k].id) < MaxQty
    /\ Emit("onAddToCart", <<products[k]>>, << >>)

\* The Remove button of the k-th line is clicked: onRemove(item.product.id).
ClickRemove(k) ==
    /\ AppShown
    /\ k \in 1..Len(items)
    /\ Emit("onRemove", <<items[k].product.id>>, << >>)

\* The quantity input of the k-th line is changed to text:
\* onUpdateQuantity(item.product.id, parseInt(e.target.value) || 0).
ChangeQuantity(k, text) ==
    /\ AppShown
    /\ k \in 1..Len(items)
    /\ Emit("onUpdateQuantity",
            <<items[k].product.id, ParsedOrZero(text)>>, text)

\* The Clear Cart button, shown with a non-empty cart, is clicked: onClear
\* (called with the click event, which clearCart does not look at).
ClickClear ==
    /\ AppShown
    /\ items # << >>
    /\ Emit("onClear", << >>, << >>)

ViewNext ==
    \/ \E data \in Catalogs : Resolve(1, data)
    \/ \E msg \in Messages : Reject(1, msg)
    \/ \E k \in 1..Len(products) : ClickAddToCart(k)
    \/ \E k \in 1..Len(items) : ClickRemove(k)
    \/ \E k \in 1..Len(items), text \in Texts : ChangeQuantity(k, text)
    \/ ClickClear

SpecView == ViewInit /\ [][ViewNext]_vars

(* ---------------- cart operations batched before a render -------------- *)

\* Most setItems calls queued before a render (calls in one event or act).
MaxBatch == 2

\* Products, identifiers and quantities given to the batched operations.
BatchProducts == {[id |-> i, price |-> PriceOf(i)] : i \in 1..2}
BatchIds == 1..2
BatchQuantities == {0, 2}

\* The argument fields of an update whose operation takes no such argument.
NoProduct == [id |-> 0, price |-> 0]

\* What React queues for a setItems call until the next render: the updater
\* with the arguments its closure holds; seen is the items of the render the
\* operation was called in, which the updaters of the code never read.
Update(op, product, productId, quantity) ==
    [op |-> op, product |-> product, productId |-> productId,
     quantity |-> quantity, seen |-> items]

\* Mutant: the updaters compute from the items of the last render instead of
\* the state they are handed (setItems([...items, x]) for setItems(prev => ..)).
applyUpdateToSeen(update, prev) ==
    CASE update.op = "addItem" ->
             addItemUpdater(update.seen, update.product)
      [] update.op = "removeItem" ->
             removeItemUpdater(update.seen, update.productId)
      [] update.op = "updateQuantity" ->
             updateQuantityUpdater(update.seen, update.productId,
                                   update.quantity)
      [] update.op = "clearCart" -> clearCartUpdater(update.seen)

\* React calls a queued updater with the state the previous one returned.
applyUpdate(update, prev) ==
    CASE update.op = "addItem" -> addItemUpdater(prev, update.product)
      [] update.op = "removeItem" ->
             removeItemUpdater(prev, update.productId)
      [] update.op = "updateQuantity" ->
             updateQuantityUpdater(prev, update.productId, update.quantity)
      [] update.op = "clearCart" -> clearCartUpdater(prev)

\* The render processes the queue in the order of the calls.
RECURSIVE processUpdateQueue(_, _)
processUpdateQueue(queue, state) ==
    IF queue = << >> THEN state
    ELSE processUpdateQueue(Tail(queue), applyUpdate(Head(queue), state))

\* A cart operation is called and no render happens yet: its update is
\* queued.  serial follows the operation applied on its own.
Enqueue(update, alone) ==
    /\ Len(pending) < MaxBatch
    /\ pending' = Append(pending, update)
    /\ serial' = alone
    /\ UNCHANGED <<batched, cartVars, orderVars, pricingVars, loaderVars>>
    /\ UNCHANGED <<providerVars, viewVars>>

BatchInit ==
    /\ CartIdle /\ OrderIdle /\ PricingIdle /\ LoaderIdle /\ OthersIdle

BatchAddItem(product) ==
    /\ status = "mounted"
    /\ QuantityOf(serial, product.id) < MaxQty
    /\ Enqueue(Update("addItem", product, 0, 0),
               addItemUpdater(serial, product))

BatchRemoveItem(productId) ==
    /\ status = "mounted"
    /\ Enqueue(Update("removeItem", NoProduct, productId, 0),
               removeItemUpdater(serial, productId))

BatchUpdateQuantity(productId, quantity) ==
    /\ status = "mounted"
    /\ Enqueue(Update("updateQuantity", NoProduct, productId, quantity),
               updateQuantityUpdater(serial, productId, quantity))

BatchClearCart ==
    /\ status = "mounted"
    /\ Enqueue(Update("clearCart", NoProduct, 0, 0), clearCartUpdater(serial))

\* The event (or act) ends: React renders once, with the queue processed.
BatchRender ==
    /\ pending # << >>
    /\ CartCommit(processUpdateQueue(pending, items), lastOp)
    /\ pending' = << >>
    /\ batched' = Len(pending)
    /\ UNCHANGED <<serial, orderVars, pricingVars, loaderVars>>
    /\ UNCHANGED <<providerVars, viewVars>>

BatchNext ==
    \/ \E product \in BatchProducts : BatchAddItem(product)
    \/ \E productId \in BatchIds : BatchRemoveItem(productId)
    \/ \E productId \in BatchIds, quantity \in BatchQuantities :
           BatchUpdateQuantity(productId, quantity)
    \/ BatchClearCart
    \/ BatchRender

SpecBatch == BatchInit /\ [][BatchNext]_vars

(* ------------- the cart under every valid discount percentage ---------- *)

\* The discount percentages calculateDiscount accepts.
ValidDiscountPercents == 0..100

\* The products and identifiers the operations are given under SpecDiscount:
\* the catalog's, and product 2 also free of charge and at $5.495.
DiscountIds == 1..2
DiscountProducts ==
    {p \in Products : p.id \in DiscountIds}
        \cup {[id |-> 2, price |-> 0], [id |-> 2, price |-> 5495]}

\* renderHook(() => useCart(discountPercent)) with a valid percentage.
DiscountInit ==
    /\ discountPercent \in ValidDiscountPercents
    /\ items = << >>
    /\ lastOp = NoOp
    /\ status = "mounted"
    /\ current = Render(<< >>, discountPercent)
    /\ OrderIdle /\ PricingIdle /\ LoaderIdle /\ OthersIdle

DiscountNext ==
    \/ \E product \in DiscountProducts : AddItem(product)
    \/ \E productId \in DiscountIds : RemoveItem(productId)
    \/ \E productId \in DiscountIds, quantity \in QtyArgs :
           UpdateQuantity(productId, quantity)
    \/ ClearCart

SpecDiscount == DiscountInit /\ [][DiscountNext]_vars

(* ------------------------------ properties ----------------------------- *)

\* The product [id, price] named by a recorded addItem call.
OpProduct(op) == [id |-> op.id, price |-> op.price]

\* s without its k-th element.
DropAt(s, k) == SubSeq(s, 1, k - 1) \o SubSeq(s, k + 1, Len(s))

\* C1: in every reachable state the cart holds at most one line item per
\* product identifier.
C1_OneLinePerProduct ==
    \A j, k \in 1..Len(items) :
        j # k => items[j].product.id # items[k].product.id

\* addItem was called for a product that already had a line, next to others.
C1_Witness ==
    /\ lastOp.op = "addItem" /\ lastOp.had
    /\ Len(items) = NumProducts

\* C2: whatever integer quantities the operations were given, every line has
\* a quantity >= 1, and a line given a quantity <= 0 is gone, not kept.
C2_QuantityAtLeastOne ==
    /\ \A k \in 1..Len(items) : items[k].quantity \in Nat \ {0}
    /\ (lastOp.op = "updateQuantity" /\ lastOp.quantity <= 0)
           => ~HasLine(items, lastOp.id)

\* updateQuantity was given a negative quantity for a line the cart had.
C2_Witness ==
    /\ lastOp.op = "updateQuantity" /\ lastOp.quantity < 0 /\ lastOp.had
    /\ items # << >>

\* C3: addItem(product) adds 1 to the quantity of the product's line if there
\* is one, changing neither the number nor the order of the lines, and else
\* appends a line of quantity 1 for the product after the existing lines;
\* n calls in a row from a cart without the product give one line of
\* quantity n.
C3_AddItemStep ==
    lastOp'.op = "addItem" =>
        IF HasLine(items, lastOp'.id)
        THEN /\ Len(items') = Len(items)
             /\ \A k \in 1..Len(items) :
                    /\ items'[k].product = items[k].product
                    /\ items'[k].quantity =
                           IF items[k].product.id = lastOp'.id
                           THEN items[k].quantity + 1
                           ELSE items[k].quantity
        ELSE items' = Append(items, [product |-> OpProduct(lastOp'),
                                     quantity |-> 1])

C3_AddItemRun ==
    (lastOp.op = "addItem" /\ lastOp.n > 0) =>
        /\ Cardinality({k \in 1..Len(items) :
                            items[k].product.id = lastOp.id}) = 1
        /\ QuantityOf(items, lastOp.id) = lastOp.n

C3_AddItem == [][C3_AddItemStep]_vars /\ []C3_AddItemRun

\* The second addItem in a row for a product that was not in the cart, which
\* holds other lines too.
C3_Witness ==
    /\ lastOp.op = "addItem" /\ lastOp.had /\ lastOp.n = 2
    /\ Len(items) >= 2

\* C4: updateQuantity(productId, quantity) with quantity <= 0 leaves the cart
\* in the state removeItem(productId) leaves it in: the line is gone, and
\* itemCount has lost its quantity.
C4_NonPositiveStep ==
    (lastOp'.op = "updateQuantity" /\ lastOp'.quantity <= 0) =>
        /\ items' = removeItemUpdater(items, lastOp'.id)
        /\ current' = Render(removeItemUpdater(items, lastOp'.id),
                             discountPercent)
        /\ status' = "mounted"
        /\ ~HasLine(items', lastOp'.id)
        /\ current'.itemCount =
               current.itemCount - QuantityOf(items, lastOp'.id)

C4_NonPositiveIsRemove == [][C4_NonPositiveStep]_vars

\* updateQuantity(id, 0) was called for a line the cart had, others remain.
C4_Witness ==
    /\ lastOp.op = "updateQuantity" /\ lastOp.quantity = 0 /\ lastOp.had
    /\ current.itemCount > 0

\* C5: updateQuantity(productId, quantity) with quantity > 0 on a cart with a
\* line for productId sets that line's quantity to quantity, whatever it was,
\* and leaves every line where it was.
C5_SetStep ==
    (/\ lastOp'.op = "updateQuantity" /\ lastOp'.quantity > 0
     /\ HasLine(items, lastOp'.id)) =>
        /\ Len(items') = Len(items)
        /\ \A k \in 1..Len(items) :
               /\ items'[k].product = items[k].product
               /\ items'[k].quantity =
                      IF items[k].product.id = lastOp'.id
                      THEN lastOp'.quantity
                      ELSE items[k].quantity

C5_SetsExactQuantity == [][C5_SetStep]_vars

\* A positive quantity was set on a line that is not the first of the cart.
C5_Witness ==
    /\ lastOp.op = "updateQuantity" /\ lastOp.quantity > 0 /\ lastOp.had
    /\ Len(items) >= 2
    /\ items[Len(items)].product.id = lastOp.id
    /\ items[Len(items)].quantity = lastOp.quantity

\* C6: updateQuantity(productId, quantity) with quantity > 0 on a cart with
\* no line for productId changes nothing: no line appears, and the lines and
\* the derived totals stay as they were.
C6_AbsentStep ==
    (/\ lastOp'.op = "updateQuantity" /\ lastOp'.quantity > 0
     /\ ~HasLine(items, lastOp'.id)) =>
        /\ items' = items
        /\ current' = current
        /\ status' = status

C6_AbsentIsNoOp == [][C6_AbsentStep]_vars

\* A positive quantity was given for a product a non-empty cart did not hold.
C6_Witness ==
    /\ lastOp.op = "updateQuantity" /\ lastOp.quantity > 0 /\ ~lastOp.had
    /\ items # << >>
    /\ ~HasLine(items, lastOp.id)

\* C7: removeItem(productId) deletes the line of productId if there is one
\* and otherwise changes nothing and raises nothing; the other lines keep
\* their quantities and their order.
C7_RemoveStep ==
    lastOp'.op = "removeItem" =>
        /\ status' = "mounted"
        /\ IF HasLine(items, lastOp'.id)
           THEN \E k \in 1..Len(items) :
                    /\ items[k].product.id = lastOp'.id
                    /\ items' = DropAt(items, k)
           ELSE items' = items /\ current' = current

C7_RemoveItem == [][C7_RemoveStep]_vars

\* A line was removed from between or beside two lines that remain.
C7_Witness ==
    /\ lastOp.op = "removeItem" /\ lastOp.had
    /\ Len(items) >= 2

\* C8: clearCart leaves no line items, from any state, and so does a second
\* clearCart right after it; neither raises.
C8_ClearEmpties ==
    lastOp.op = "clearCart" =>
        /\ items = << >>
        /\ status = "mounted"
        /\ current.items = << >>
        /\ current.itemCount = 0

\* clearCart was called twice in a row.
C8_Witness == lastOp.op = "clearCart" /\ lastOp.n = 2

\* C9: the derived values are a function of the line items and the discount
\* percentage: subtotal = calculateTotal(lines), discountedTotal =
\* calculateDiscount(subtotal, discount), tax = calculateTax(discountedTotal)
\* at 10%, total = discountedTotal + tax rounded to the cent, itemCount = the
\* sum of the quantities; 10% off one line of $80 x 1 gives 80, 72, 7.2, 79.2.
C9_DerivedFromItems ==
    status = "mounted" =>
        /\ current.items = items
        /\ current.subtotal = calculateTotal(PriceLines(items))
        /\ current.discountedTotal =
               calculateDiscount(current.subtotal, discountPercent)
        /\ current.tax = calculateTax(current.discountedTotal, DefaultTaxRate)
        /\ current.total =
               MathRound(current.discountedTotal + current.tax, CentUnits)
                   * CentUnits
        /\ current.itemCount = ReduceQuantity(items)
        /\ (/\ discountPercent = 10
            /\ items = <<[product |-> [id |-> 1, price |-> 80000],
                          quantity |-> 1]>>)
               => /\ current.subtotal = 80000
                  /\ current.discountedTotal = 72000
                  /\ current.tax = 7200
                  /\ current.total = 79200
                  /\ current.itemCount = 1

\* The scenario of the cart test: discount 10%, one line of $80 x 1.
C9_Witness ==
    /\ discountPercent = 10
    /\ items = <<[product |-> [id |-> 1, price |-> 80000], quantity |-> 1]>>
    /\ current.total = 79200

\* C10: the cart engine raises no error, whatever discount percentage it was
\* constructed with and whatever the operations' arguments.
C10_NeverRaises == status = "mounted"

\* C11 (as claimed): the line items are in the order in which their products
\* were first added to the cart, also for a product removed and added again.
C11_FirstAdditionOrder ==
    ItemIds(items) = SelectSeq(firstAdded, LAMBDA id : HasLine(items, id))

\* C11 (amended): the line items are in the order in which the present lines
\* were created, that is, of each product's latest addition to a cart that
\* had no line for it; a product removed and added again comes last.
C11_CreationOrder == ItemIds(items) = created

\* A product was removed and added again while a product first added after
\* it stayed in the cart.
C11_Witness ==
    /\ Len(items) >= 2
    /\ ItemIds(items) # SelectSeq(firstAdded, LAMBDA id : HasLine(items, id))

\* n/d (d > 0) rounded to the nearest integer, a tie going away from zero.
RoundHalfAway(n, d) ==
    IF n >= 0 THEN (2 * n + d) \div (2 * d)
    ELSE -((2 * (-n) + d) \div (2 * d))

\* An amount rounded to 2 decimals, ties away from zero.
ToCents(amount) == RoundHalfAway(amount, CentUnits) * CentUnits

Abs(x) == IF x < 0 THEN -x ELSE x

\* The sum of f over the index set S.
RECURSIVE SumOver(_, _)
SumOver(f, S) ==
    IF S = {} THEN 0
    ELSE LET x == CHOOSE y \in S : TRUE IN f[x] + SumOver(f, S \ {x})

\* The exact sum of price x quantity over the lines.
LineSum(lines) ==
    SumOver([k \in 1..Len(lines) |-> lines[k].price * lines[k].quantity],
            1..Len(lines))

\* The sum of the line totals, each rounded to the cent on its own.
RoundedLineSum(lines) ==
    SumOver([k \in 1..Len(lines) |->
                ToCents(lines[k].price * lines[k].quantity)],
            1..Len(lines))

\* C12: calculateDiscount fails for every percentage d < 0 or d > 100,
\* whatever the amount, and for no percentage within 0..100, bounds included.
C12_ThrowsOutsideRange ==
    call.fn = "calculateDiscount" =>
        (call.threw <=> (call.arg < 0 \/ call.arg > 100))

\* calculateDiscount was called with 100%, the upper bound, and returned.
C12_Witness ==
    /\ call.fn = "calculateDiscount" /\ call.arg = 100 /\ call.price > 0
    /\ ~call.threw

\* C13 (as claimed): for 0 <= d <= 100 and every amount a >= 0, sub-cent
\* fractions included, calculateDiscount(a, d) <= a, calculateDiscount(a, 0)
\* is a rounded to 2 decimals and calculateDiscount(a, 100) is 0.
C13_NeverAboveAmount ==
    (call.fn = "calculateDiscount" /\ ~call.threw /\ call.price >= 0) =>
        /\ call.result <= call.price
        /\ call.arg = 0 => call.result = ToCents(call.price)
        /\ call.arg = 100 => call.result = 0

\* C13 (amended): for 0 <= d <= 100 and every amount a >= 0,
\* calculateDiscount(a, d) <= a rounded to 2 decimals (so <= a when a is a
\* whole number of cents), calculateDiscount(a, 0) is a rounded to 2 decimals
\* and calculateDiscount(a, 100) is 0.
C13_NeverAboveRoundedAmount ==
    (call.fn = "calculateDiscount" /\ ~call.threw /\ call.price >= 0) =>
        /\ call.result <= ToCents(call.price)
        /\ call.price % CentUnits = 0 => call.result <= call.price
        /\ call.arg = 0 => call.result = ToCents(call.price)
        /\ call.arg = 100 => call.result = 0

\* An amount with a sub-cent fraction came back rounded up, above itself.
C13_Witness ==
    /\ call.fn = "calculateDiscount" /\ ~call.threw
    /\ call.price > 0 /\ call.price % CentUnits # 0
    /\ call.result > call.price

\* C14: calculateDiscount returns amount x (1 - d/100) rounded to 2 decimals,
\* a value halfway between two cents going to the cent farther from zero, for
\* positive and for negative amounts.
C14_HalfAwayFromZero ==
    (call.fn = "calculateDiscount" /\ ~call.threw) =>
        call.result =
            RoundHalfAway(call.price * (100 - call.arg), 100 * CentUnits)
                * CentUnits

C16_TaxAnyRate ==
    call.fn = "calculateTax" =>
        LET rate == IF call.given THEN call.arg ELSE 10
        IN  /\ ~call.threw
            /\ call.result % CentUnits = 0
            /\ 2 * Abs(call.price * rate - 100 * call.result)
                   <= 100 * CentUnits

\* A negative rate was given and a (negative) tax came back.
C16_Witness ==
    /\ call.fn = "calculateTax" /\ call.given /\ call.arg < 0
    /\ call.price > 0 /\ call.result < 0

\* The three states of the loader as the specification names them.
LoaderLoading == loading
LoaderReady == ~loading /\ error = NoError
LoaderFailed == ~loading /\ error # NoError /\ products = << >>

\* C17: in every reachable state, also after the loader was invoked again
\* with another provider, the loader is loading, or ready (products
\* populated, no error message), or failed (an error message, no products);
\* it starts loading with no products and no error.
C17_ThreeStates ==
    /\ LoaderLoading \/ LoaderReady \/ LoaderFailed
    /\ lastEvent.ev = "mount" =>
           loading /\ products = << >> /\ error = NoError

\* C18: from loading, the success of the current activation's fetch leads to
\* ready with exactly the fetched products, its failure to failed with the
\* failure's message as the error, and nothing else leaves loading.
C18_LeavesLoading ==
    /\ (lastEvent.ev = "resolve" /\ lastEvent.current /\ lastEvent.wasLoading)
           => LoaderReady /\ products = lastEvent.data
    /\ (lastEvent.ev = "reject" /\ lastEvent.current /\ lastEvent.wasLoading)
           => LoaderFailed /\ error = lastEvent.msg
    /\ (lastEvent.wasLoading /\ ~loading)
           => lastEvent.ev \in {"resolve", "reject"} /\ lastEvent.current

\* C19: invoked again with another provider, from loading, ready or failed,
\* the loader is loading again and has issued a fetch against the new
\* provider; it stays loading until that fetch settles.
C19_RerenderStep ==
    lastEvent'.ev = "rerender" =>
        /\ loading'
        /\ api' # api
        /\ Len(fetches') = Len(fetches) + 1
        /\ fetches'[Len(fetches')] =
               [api |-> api', cancelled |-> FALSE, state |-> "pending"]

C19_LoadingUntilSettled ==
    (loading /\ ~loading') =>
        /\ lastEvent'.ev \in {"resolve", "reject"}
        /\ lastEvent'.k = Len(fetches)
        /\ fetches[Len(fetches)].api = api

C19_RestartsLoading ==
    [][C19_RerenderStep /\ C19_LoadingUntilSettled]_vars

\* The loader was invoked again after it had failed.
C19_Witness ==
    /\ lastEvent.ev = "rerender" /\ ~lastEvent.wasLoading
    /\ error # NoError
    /\ loading

\* C20: once the consumer is torn down, products, loading and error never
\* change again: the result of a fetch in flight is discarded when it arrives,
\* and no fetch is issued again.
C20_TornDownStep ==
    (~mounted \/ ~mounted') =>
        /\ UNCHANGED <<products, loading, error>>
        /\ Len(fetches') = Len(fetches)

C20_NoUpdateAfterTeardown == [][C20_TornDownStep]_vars

\* The fetch in flight at teardown resolved afterwards and was discarded.
C20_Witness ==
    /\ ~mounted
    /\ lastEvent.ev = "resolve" /\ lastEvent.k = Len(fetches)
    /\ lastEvent.data # products
    /\ loading

\* C21: when the loader is invoked again before the fetch of the previous
\* activation has settled, that fetch's result, success or failure, changes
\* none of products, loading and error when it arrives, before or after the
\* newer fetch settles: a settling fetch changes them only if it is the
\* fetch of the most recent activation.
C21_StaleStep ==
    (lastEvent'.ev \in {"resolve", "reject"} /\ lastEvent'.k < Len(fetches))
        => UNCHANGED <<products, loading, error>>

C21_OnlyLatestStep ==
    (products' # products \/ error' # error \/ (loading /\ ~loading'))
        => /\ lastEvent'.ev \in {"resolve", "reject"}
           /\ lastEvent'.k = Len(fetches)

C21_StaleFetchDiscarded == [][C21_StaleStep /\ C21_OnlyLatestStep]_vars

\* The fetch of the first activation resolved after the fetch of the second
\* one had settled, with other products than the ones shown.
C21_Witness ==
    /\ mounted /\ Len(fetches) >= 2
    /\ lastEvent.ev = "resolve" /\ lastEvent.k = 1
    /\ fetches[2].state = "settled"
    /\ lastEvent.data # products
    /\ ~loading

\* C22: each activation (the mount, each re-render with another provider)
\* calls fetchProducts() exactly once, on its provider; the failure of the
\* current activation's fetch leads directly to failed, and the loader then
\* stays failed, with the same message and no further fetch, until it is
\* invoked again.
C22_NoRetryStep ==
    /\ Len(fetches') =
           Len(fetches) + (IF lastEvent'.ev = "rerender" THEN 1 ELSE 0)
    /\ fetches'[Len(fetches')].api = api'
    /\ (lastEvent'.ev = "reject" /\ lastEvent'.current)
           => LoaderFailed' /\ error' = lastEvent'.msg
    /\ (LoaderFailed /\ lastEvent'.ev # "rerender")
           => LoaderFailed' /\ error' = error

C22_SingleFetchNoRetry == [][C22_NoRetryStep]_vars

\* C23: the mock provider's fetch-one operation returns, for every
\* identifier of its fixture, the product with that identifier, and fails
\* for every other identifier with an error whose message names the
\* identifier ('Product 999 not found'); its list operation always succeeds
\* with the whole fixture.
C23_MockProvider ==
    (request.state \in {"fulfilled", "rejected"} /\ request.provider = "mock")
        => IF request.op = "fetchProducts"
           THEN /\ request.state = "fulfilled"
                /\ Len(request.value) = 4
                /\ \A k \in 1..4 : request.value[k] = mockProducts[k]
           ELSE IF request.id \in 1..4
                THEN /\ request.state = "fulfilled"
                     /\ request.value.id = request.id
                     /\ \E k \in 1..4 : request.value = mockProducts[k]
                ELSE /\ request.state = "rejected"
                     /\ request.message =
                            <<"Product ", request.id, " not found">>

\* The scenario of the provider test: fetchProduct('999') was rejected.
C23_Witness ==
    /\ request.state = "rejected" /\ request.provider = "mock"
    /\ request.op = "fetchProduct" /\ request.id = 999

\* C24: the networked provider requests {baseUrl}/products for the list
\* operation and {baseUrl}/products/{id} for fetch-one; when the response is
\* a success the operation returns the response's body, and when it is not,
\* whatever its status, the operation fails with a fetch error and returns
\* nothing.
C24_FetchProvider ==
    (request.state # "none" /\ request.provider = "fetch") =>
        /\ request.url =
               IF request.op = "fetchProducts"
               THEN <<request.baseUrl, "/products">>
               ELSE <<request.baseUrl, "/products/", request.id>>
        /\ (request.state # "pending" /\ request.responded) =>
               IF request.response.ok
               THEN /\ request.state = "fulfilled"
                    /\ request.value = request.response.body
               ELSE /\ request.state = "rejected"
                    /\ request.message =
                           IF request.op = "fetchProducts"
                           THEN <<"Failed to fetch products">>
                           ELSE <<"Failed to fetch product ", request.id>>

\* fetchProduct got a 500 response and was rejected.
C24_Witness ==
    /\ request.state = "rejected" /\ request.provider = "fetch"
    /\ request.op = "fetchProduct" /\ request.responded
    /\ request.response.status = 500
    /\ request.url = <<"https://api.example.com", "/products/", 2>>

\* C25: every callback a component invokes on a user event runs exactly the
\* cart operation that corresponds to it, with the same arguments, and
\* changes nothing else: onAddToCart(product) runs addItem(product) with a
\* product of the catalog shown, onRemove(id) runs removeItem(id),
\* onUpdateQuantity(id, quantity) runs updateQuantity(id, quantity), onClear
\* runs clearCart(); the cart changes by no other way, and what the
\* components are given is what the cart engine returned.
C25_ForwardStep ==
    (cartVars' # cartVars \/ intent' # intent) =>
        /\ UNCHANGED loaderVars
        /\ current'.items = items'
        /\ CASE intent'.cb = "onAddToCart" ->
                    /\ intent'.args \in {<<products[k]>> : k \in 1..Len(products)}
                    /\ lastOp'.op = "addItem"
                    /\ OpProduct(lastOp') = intent'.args[1]
                    /\ items' = addItemUpdater(items, intent'.args[1])
             [] intent'.cb = "onRemove" ->
                    /\ Len(intent'.args) = 1
                    /\ HasLine(items, intent'.args[1])
                    /\ lastOp'.op = "removeItem"
                    /\ lastOp'.id = intent'.args[1]
                    /\ items' = removeItemUpdater(items, intent'.args[1])
             [] intent'.cb = "onUpdateQuantity" ->
                    /\ Len(intent'.args) = 2
                    /\ HasLine(items, intent'.args[1])
                    /\ lastOp'.op = "updateQuantity"
                    /\ lastOp'.id = intent'.args[1]
                    /\ lastOp'.quantity = intent'.args[2]
                    /\ items' = updateQuantityUpdater(items, intent'.args[1],
                                                      intent'.args[2])
             [] intent'.cb = "onClear" ->
                    /\ lastOp'.op = "clearCart"
                    /\ items' = clearCartUpdater(items)
             [] OTHER -> FALSE

C25_NoIntentNoChange ==
    intent.cb = "none" => items = << >> /\ lastOp = NoOp

C25_IntentsForwarded == [][C25_ForwardStep]_vars /\ []C25_NoIntentNoChange

\* The quantity of the second line was changed to 3 through its input.
C25_Witness ==
    /\ intent.cb = "onUpdateQuantity" /\ intent.args = <<2, 3>>
    /\ lastOp.op = "updateQuantity" /\ lastOp.had
    /\ Len(items) = 2 /\ items[2].quantity = 3

\* C26: when several cart operations are called before the cart is rendered
\* again (two addItem calls for one product in one event), the state after
\* the render is the state reached by applying them one at a time in the
\* order of the calls, each to the result of the one before: no update is
\* lost or computed from stale line items.  Until the render, the state
\* read is the one of the last render.
C26_BatchIsSerial ==
    /\ pending = << >> =>
           /\ items = serial
           /\ status = "mounted"
           /\ current = Render(serial, discountPercent)
    /\ \A k \in 1..Len(pending) : pending[k].seen = items

\* A render processed two updates at once and left a line of quantity 2,
\* as in the cart test that adds a product twice in one act.
C26_Witness ==
    /\ pending = << >> /\ batched = 2
    /\ Len(items) = 1 /\ items[1].quantity = 2
    /\ items[1].product = [id |-> 1, price |-> 80000]

\* C27: the discount percentage is fixed for the life of the cart: no
\* operation, clearCart included, changes it, the discounted total is in every
\* state the subtotal discounted by the percentage the cart was constructed
\* with, and with the default percentage 0 the discounted total is the
\* subtotal.
C27_DerivedUseDiscount ==
    status = "mounted" =>
        /\ current.discountedTotal =
               calculateDiscount(current.subtotal, discountPercent)
        /\ discountPercent = 0 => current.discountedTotal = current.subtotal

C27_DiscountFixed ==
    [][discountPercent' = discountPercent]_vars /\ []C27_DerivedUseDiscount

\* clearCart emptied a cart constructed with 10% off.
C27_Witness ==
    /\ lastOp.op = "clearCart" /\ lastOp.had
    /\ discountPercent = 10 /\ status = "mounted"

\* C28: a cart starts with no line items, and whenever it has none, at the
\* start, after clearCart or after its last line was removed, subtotal,
\* discountedTotal, tax, total and itemCount are all 0, for every discount
\* percentage from 0 to 100.
C28_EmptyIsZero ==
    /\ lastOp = NoOp => items = << >>
    /\ items = << >> =>
           /\ status = "mounted"
           /\ current.items = << >>
           /\ current.subtotal = 0
           /\ current.discountedTotal = 0
           /\ current.tax = 0
           /\ current.total = 0
           /\ current.itemCount = 0

\* The last line of a cart with 100% off was removed.
C28_Witness ==
    /\ items = << >> /\ discountPercent = 100
    /\ lastOp.op = "removeItem" /\ lastOp.had

\* The lines of its for products other than id, in their order.
OtherLines(its, id) == SelectSeq(its, LAMBDA line : line.product.id # id)

\* C29: addItem, removeItem and updateQuantity, called for one product
\* identifier, leave the lines of all other identifiers as they were: the
\* same product records and quantities, in the same relative order.
C29_FrameStep ==
    lastOp'.op \in {"addItem", "removeItem", "updateQuantity"} =>
        OtherLines(items', lastOp'.id) = OtherLines(items, lastOp'.id)

C29_OtherLinesUnchanged == [][C29_FrameStep]_vars

\* A quantity was set on the middle one of three lines.
C29_Witness ==
    /\ lastOp.op = "updateQuantity" /\ lastOp.had /\ lastOp.quantity > 0
    /\ Len(items) = 3
    /\ items[2].product.id = lastOp.id
    /\ items[1].quantity # items[2].quantity

\* f[1] + ... + f[n]
RECURSIVE SumTo(_, _)
SumTo(f, n) == IF n = 0 THEN 0 ELSE SumTo(f, n - 1) + f[n]

\* The subtotal of the quantities of now at the unit prices stored in before.
StoredSubtotal(before, now) ==
    ToCents(SumTo([k \in 1..Len(before) |->
                      before[k].product.price * now[k].quantity],
                  Len(before)))

\* C30: addItem with a product whose identifier has a line changes only that
\* line's quantity: every line keeps the product record it was created with,
\* also when the product passed has another unit price, and the subtotal is
\* computed with the stored prices.
C30_StoredProductStep ==
    (lastOp'.op = "addItem" /\ HasLine(items, lastOp'.id)) =>
        /\ Len(items') = Len(items)
        /\ \A k \in 1..Len(items) : items'[k].product = items[k].product
        /\ current'.subtotal = StoredSubtotal(items, items')

C30_KeepsStoredProduct == [][C30_StoredProductStep]_vars

\* addItem was given, for a line in the cart, a product with another price.
C30_Witness ==
    /\ lastOp.op = "addItem" /\ lastOp.had
    /\ \E k \in 1..Len(items) :
           /\ items[k].product.id = lastOp.id
           /\ items[k].product.price # lastOp.price
           /\ items[k].quantity = 2

\* C31: for a cart whose products have unit prices >= 0 and whose discount
\* percentage is within 0..100, in every state the derived amounts are whole
\* numbers of cents with 0 <= discountedTotal <= subtotal, tax >= 0 and
\* discountedTotal <= total.
C31_AmountsOrdered ==
    (/\ status = "mounted"
     /\ discountPercent \in 0..100
     /\ \A k \in 1..Len(items) : items[k].product.price >= 0) =>
        /\ current.subtotal % CentUnits = 0
        /\ current.discountedTotal % CentUnits = 0
        /\ current.tax % CentUnits = 0
        /\ current.total % CentUnits = 0
        /\ 0 <= current.discountedTotal
        /\ current.discountedTotal <= current.subtotal
        /\ current.tax >= 0
        /\ current.discountedTotal <= current.total

\* A cart with 33% off holds a line priced to the tenth of a cent and a
\* second line; discount and tax are both positive.
C31_Witness ==
    /\ status = "mounted" /\ discountPercent = 33
    /\ Len(items) = 2
    /\ \E k \in 1..2 : items[k].product.price % CentUnits # 0
    /\ 0 < current.discountedTotal
    /\ current.discountedTotal < current.subtotal
    /\ 0 < current.tax

\* C32: provided the fetch of the current activation settles, the loader
\* leaves the loading state: a mounted loader that is loading eventually has
\* loading = false (or is torn down), the settling of the current
\* activation's fetch, by success or by failure, leads to loading = false,
\* and a mounted loader is loading only while that fetch is pending.
C32_LoadingHasPendingFetch ==
    (mounted /\ loading) => fetches[Len(fetches)].state = "pending"

C32_CurrentSettled ==
    lastEvent.ev \in {"resolve", "reject"} /\ lastEvent.current

EnteredInteger(text) ==
    CASE text = <<"1">> -> 1
      [] text = <<"3">> -> 3
      [] text = <<"0", "2">> -> 2
      [] text = <<"-", "2">> -> -2
      [] text = <<"2", ".", "7">> -> 2
      [] text = <<"1", "e", "2">> -> 1
      [] text = <<" ", "2">> -> 2
      [] text = <<"3", "a">> -> 3
      [] OTHER -> 0

\* C33: for every text entered as a quantity the cart view calls
\* onUpdateQuantity with an integer: the integer the text parses to when it
\* parses to one other than 0, and 0 for every other text (empty, not a
\* number, or 0), upon which the cart engine deletes the line; no line ever
\* holds a quantity that is not a positive integer.
C33_QuantityEntry ==
    /\ \A k \in 1..Len(items) : items[k].quantity \in Nat \ {0}
    /\ intent.cb = "onUpdateQuantity" =>
           /\ intent.args[2] \in Int
           /\ intent.args[2] = EnteredInteger(intent.text)
           /\ lastOp.op = "updateQuantity"
           /\ lastOp.quantity = intent.args[2]
           /\ IF intent.args[2] <= 0
              THEN ~HasLine(items, intent.args[1])
              ELSE QuantityOf(items, intent.args[1]) = intent.args[2]

\* Letters were entered as the quantity of one of two lines, which is gone.
C33_Witness ==
    /\ intent.cb = "onUpdateQuantity"
    /\ intent.text = <<"a", "b", "c">> /\ intent.args[2] = 0
    /\ lastOp.had /\ Len(items) = 1
    /\ ~HasLine(items, intent.args[1])

====
